---- MODULE Spec2Model ----
(***************************************************************************)
(* State-machine model of extract-kindle-clippings.py and utilities.py.    *)
(*                                                                         *)
(* Text is modelled character by character.  A Python str is a TLA+ string *)
(* (TLC evaluates Len, \o and SubSeq on strings); the regular expressions  *)
(* of the script are operators that compute what re.findall / re.search    *)
(* return on such a string.  Inputs are ASCII, so \s, \d and str.strip()   *)
(* range over the ASCII whitespace and digits.                             *)
(***************************************************************************)
EXTENDS Integers, Sequences, FiniteSets, TLC

(***************************************************************************)
(* Strings                                                                 *)
(***************************************************************************)

\* s[m..n] (1-based, inclusive), empty when the range is empty
Sub(s, m, n) == IF m > n \/ m < 1 \/ n > Len(s) THEN "" ELSE SubSeq(s, m, n)

\* the character at index i, "" outside the string
Ch(s, i) == Sub(s, i, i)

Digits == {"0", "1", "2", "3", "4", "5", "6", "7", "8", "9"}

HexChars == Digits \cup {"a", "b", "c", "d", "e", "f", "A", "B", "C", "D", "E", "F"}

Whitespace == {" ", "\t", "\n", "\r"}

MinOf(S) == CHOOSE x \in S : \A y \in S : x <= y

MaxOf(S) == CHOOSE x \in S : \A y \in S : x >= y

\* s[i:] of Python, 1-based
Tail_(s, i) == Sub(s, i, Len(s))

\* p occurs in s at index i
OccursAt(s, p, i) == /\ i >= 1
                     /\ i + Len(p) - 1 <= Len(s)
                     /\ SubSeq(s, i, i + Len(p) - 1) = p

\* str.find(p, from): the first index >= from where p occurs, 0 when there is none
RECURSIVE Find(_, _, _)
Find(s, p, from) ==
    IF from > Len(s) - Len(p) + 1 THEN 0
    ELSE IF OccursAt(s, p, from) THEN from
    ELSE Find(s, p, from + 1)

\* p in s
Contains(s, p) == Find(s, p, 1) # 0

\* the last index of the maximal run of characters of set C that starts at i
\* (i - 1 when s[i] is not in C)
RECURSIVE RunEnd(_, _, _)
RunEnd(s, C, i) ==
    IF i >= 1 /\ i <= Len(s) /\ Ch(s, i) \in C THEN RunEnd(s, C, i + 1) ELSE i - 1

\* the first index >= i of a character of set C, Len(s) + 1 when there is none
RECURSIVE FirstIn(_, _, _)
FirstIn(s, C, i) ==
    IF i > Len(s) \/ Ch(s, i) \in C THEN i ELSE FirstIn(s, C, i + 1)

\* the last index <= i of a character of set C, 0 when there is none
RECURSIVE LastIn(_, _, _)
LastIn(s, C, i) ==
    IF i < 1 \/ Ch(s, i) \in C THEN i ELSE LastIn(s, C, i - 1)

\* the first index >= i of a character outside set C, Len(s) + 1 when there is none
RECURSIVE FirstNotIn(_, _, _)
FirstNotIn(s, C, i) ==
    IF i > Len(s) \/ Ch(s, i) \notin C THEN i ELSE FirstNotIn(s, C, i + 1)

\* the last index <= i of a character outside set C, 0 when there is none
RECURSIVE LastNotIn(_, _, _)
LastNotIn(s, C, i) ==
    IF i < 1 \/ Ch(s, i) \notin C THEN i ELSE LastNotIn(s, C, i - 1)

\* str.strip()
Strip(s) == Sub(s, FirstNotIn(s, Whitespace, 1), LastNotIn(s, Whitespace, Len(s)))

\* str.replace(old, new): non-overlapping occurrences, left to right, one pass
RECURSIVE Replace(_, _, _)
Replace(s, old, new) ==
    LET i == Find(s, old, 1)
    IN  IF i = 0
        THEN s
        ELSE Sub(s, 1, i - 1) \o new \o Replace(Tail_(s, i + Len(old)), old, new)

\* str.split(sep)[0]
SplitFirst(s, sep) ==
    LET i == Find(s, sep, 1)
    IN  IF i = 0 THEN s ELSE Sub(s, 1, i - 1)

\* the one element of a singleton set
The(S) == CHOOSE x \in S : TRUE

DigitVal(c) == The({d \in 0..9 : Sub("0123456789", d + 1, d + 1) \in {c}})

\* int(s[:n]) of a string of decimal digits
RECURSIVE ParseTo(_, _)
ParseTo(s, n) == IF n <= 0 THEN 0 ELSE 10 * ParseTo(s, n - 1) + DigitVal(Ch(s, n))

\* int(s) of a string of decimal digits
ParseInt(s) == The({ParseTo(v, Len(v)) : v \in {s}})

\* c * n
RECURSIVE Repeat(_, _)
Repeat(c, n) == IF n <= 0 THEN "" ELSE c \o Repeat(c, n - 1)

(***************************************************************************)
(* Regular expressions.  Each operator returns <<>> when there is no match *)
(* and otherwise a one-element sequence holding the groups of the first    *)
(* match, the only one the script reads.                                   *)
(***************************************************************************)

note_sep == "=========="

commentstr == ".. "

\* ^(.*)\((.*)\)$ : the first group is greedy, so it ends at the last "("
regex_title(key) ==
    LET n == Len(key)
        p == LastIn(key, {"("}, n - 1)
    IN  IF n >= 2 /\ Ch(key, n) = ")" /\ p >= 1
        THEN << <<Sub(key, 1, p - 1), Sub(key, p + 1, n - 1)>> >>
        ELSE <<>>

\* the last index p in lo..hi where "Added on" stands after a character of
\* [\s|] and before a whitespace character, 0 when there is none
RECURSIVE LastAddedOn(_, _, _)
LastAddedOn(line, lo, hi) ==
    IF hi < lo THEN 0
    ELSE IF /\ OccursAt(line, "Added on", hi)
            /\ Ch(line, hi - 1) \in (Whitespace \cup {"|"})
            /\ Ch(line, hi + 8) \in Whitespace
    THEN hi
    ELSE LastAddedOn(line, lo, hi - 1)

\* ^- Your (\S+) (.*)[\s|]+Added on\s+(.+)$
\* \S+ is the maximal run after "- Your " and must be followed by one space;
\* (.*) is greedy, so the match uses the last "Added on" that is preceded by a
\* character of [\s|] and followed by whitespace and at least one more character,
\* and leaves exactly one character to [\s|]+.
regex_info(line) ==
    LET n == Len(line)
        te == FirstIn(line, Whitespace, 8) - 1
        locStart == te + 2
        p == LastAddedOn(line, locStart + 1, n - 9)
    IN  IF /\ OccursAt(line, "- Your ", 1)
           /\ te >= 8
           /\ Ch(line, te + 1) = " "
           /\ p # 0
        THEN LET ws == RunEnd(line, Whitespace, p + 8)
                 d == IF ws + 1 <= n THEN ws + 1 ELSE n
             IN  << <<Sub(line, 8, te), Sub(line, locStart, p - 2), Tail_(line, d)>> >>
        ELSE <<>>

\* the first index >= i where word stands before a digit or "-", 0 when none
RECURSIVE FindWordRun(_, _, _)
FindWordRun(s, word, i) ==
    IF i > Len(s) - Len(word) THEN 0
    ELSE IF OccursAt(s, word, i) /\ Ch(s, i + Len(word)) \in (Digits \cup {"-"}) THEN i
    ELSE FindWordRun(s, word, i + 1)

\* search for <word>([\d\-]+): the first occurrence of word that is followed by
\* a digit or "-"; the group is the maximal run of such characters
WordRun(s, word) ==
    LET i == FindWordRun(s, word, 1)
    IN  IF i = 0 THEN <<>>
        ELSE <<Sub(s, i + Len(word), RunEnd(s, Digits \cup {"-"}, i + Len(word)))>>

\* location ([\d\-]+)
regex_loc(s) == WordRun(s, "location ")

\* page ([\d\-]+)
regex_page(s) == WordRun(s, "page ")

\* (\d+) : the first run of digits
regex_num(s) ==
    LET i == FirstIn(s, Digits, 1)
    IN  IF i > Len(s) THEN <<>> ELSE <<Sub(s, i, RunEnd(s, Digits, i))>>

\* the first index >= i of a digit run that is followed by "-" and a digit, 0
\* when there is none
RECURSIVE FindRange(_, _)
FindRange(s, i) ==
    IF i > Len(s) THEN 0
    ELSE IF /\ Ch(s, i) \in Digits
            /\ Ch(s, RunEnd(s, Digits, i) + 1) = "-"
            /\ Ch(s, RunEnd(s, Digits, i) + 2) \in Digits
    THEN i
    ELSE FindRange(s, i + 1)

\* (\d+)\-(\d+) : the first digit run that is followed by "-" and a digit
regex_numrange(s) ==
    LET i == FindRange(s, 1)
        j == RunEnd(s, Digits, i)
    IN  IF i = 0 THEN <<>>
        ELSE << <<Sub(s, i, j), Sub(s, j + 2, RunEnd(s, Digits, j + 2))>> >>

\* ^\.\.\s*([a-fA-F0-9]+)\s* : ".." at the start of the line, optional
\* whitespace, then the maximal run of hex digits
regex_hashline(line) ==
    LET h == RunEnd(line, Whitespace, 3) + 1
    IN  IF OccursAt(line, "..", 1) /\ Ch(line, h) \in HexChars
        THEN <<Sub(line, h, RunEnd(line, HexChars, h))>>
        ELSE <<>>

(***************************************************************************)
(* utilities.py                                                            *)
(***************************************************************************)

\* re.sub(r"[()'?!:]", "", clean); NFKD normalisation leaves ASCII unchanged
RECURSIVE RemoveFrom(_, _)
RemoveFrom(filename, i) ==
    IF i > Len(filename) THEN ""
    ELSE (IF Ch(filename, i) \in {"(", ")", "'", "?", "!", ":"} THEN "" ELSE Ch(filename, i))
         \o RemoveFrom(filename, i + 1)

getvalidfilename(filename) == RemoveFrom(filename, 1)

\* A row of the dynamic programme is a sequence: row[j + 1] is cur[j] of the code,
\* for j in 0..len(b).

\* cur[j] of one cell, were it to read prev[j] for prev[j - 1]
LcsCellShifted(ai, b, prev, j) == IF ai = Ch(b, j) THEN prev[j + 1] + 1 ELSE 0

\* cur[j] of one cell, j >= 1: prev[j - 1] + 1 when ai == b[j - 1], else 0
LcsCell(ai, b, prev, j) == IF ai = Ch(b, j) THEN prev[j] + 1 ELSE 0

\* the row cur of character ai, from the row prev (the concatenation makes TLC
\* compute the row once, as the inner loop does)
LcsRow(ai, b, prev) ==
    [j \in 1..(Len(b) + 1) |-> IF j = 1 THEN 0 ELSE LcsCell(ai, b, prev, j - 1)] \o <<>>

\* the rows i..len(a) of the dynamic programme, from row prev and the best so far
RECURSIVE LcsRows(_, _, _, _, _)
LcsRows(a, b, i, prev, best) ==
    IF i > Len(a) THEN best
    ELSE LET cur == LcsRow(Ch(a, i), b, prev)
             rowbest == MaxOf({cur[j] : j \in 1..Len(cur)})
         IN  IF rowbest > best
             THEN LcsRows(a, b, i + 1, cur, rowbest)
             ELSE LcsRows(a, b, i + 1, cur, best)

longest_common_substring_len(a, b) ==
    IF a = "" \/ b = "" THEN 0
    ELSE LET long == IF Len(b) > Len(a) THEN b ELSE a
             short == IF Len(b) > Len(a) THEN a ELSE b
         IN  LcsRows(long, short, 1, [j \in 1..(Len(short) + 1) |-> 0], 0)

(***************************************************************************)
(* Library calls                                                           *)
(***************************************************************************)

\* hashlib.sha256(text.encode("utf8")).hexdigest()[:8], tabulated for the texts
\* the bounded inputs below can produce (the values are the real digests)
sha256_hex8(text) ==
    CASE text = "" -> "e3b0c442"
      [] text = "x" -> "2d711642"
      [] text = "y" -> "a1fce436"
      [] text = "z" -> "594e519a"
      [] text = "Some highlighted  text." -> "1283d823"
      [] text = "Some highlighted text." -> "d97f442a"
      [] text = "the quick brown fox jumps over the lazy dog and naps" -> "ba31d387"
      [] text = "a fox jumps over the lazy dog and naps all afternoon" -> "8374b407"
      [] text = "jumps over the lazy dos; UNLIKE ANY CAT I KNOW OF HERE." -> "cd334ff8"
      [] text = "fox jumps over the lazy dog and naps all afternoon ok" -> "220aea0c"
      [] text = "brown fox jumps over the lazy dog and naps every day" -> "c9807d5c"
      [] text = "quick brown fox jumps over the lazy dog and naps now" -> "8f5ff348"
      [] text = "the quick brown fox jumps over the lazy dog and nap" -> "bb474160"
      [] text = "fox jumps over the lazy dog an" -> "672d8e15"

\* dateutil.parser.parse(date) followed by str(): <<>> stands for the exception
\* parse raises on a string that is no date
dateutil_parse(date) ==
    CASE date \in {"Monday, 1 January 2024 00:00:00", "2024-01-01 00:00:00"}
           -> <<"2024-01-01 00:00:00">>
      [] date \in {"Tuesday, 2 January 2024 00:00:00", "2024-01-02 00:00:00"}
           -> <<"2024-01-02 00:00:00">>
      [] OTHER -> <<>>

\* datetime.now(), as a date and as a time
Today == "2026-01-01"

Now == "now"

\* the character U+FEFF (byte-order mark) is written "#"
BOM == "#"

(***************************************************************************)
(* Dictionaries: a dict is a function; its keys are its DOMAIN             *)
(***************************************************************************)

EmptyDict == <<>>

DictSet(d, k, v) == [y \in (DOMAIN d) \cup {k} |-> IF y = k THEN v ELSE d[y]]

\* "".join(seq)
RECURSIVE Join(_)
Join(seq) == IF seq = <<>> THEN "" ELSE Head(seq) \o Join(Tail(seq))

\* the lines readline() returns for a file holding text s, each with its "\n"
RECURSIVE Lines(_)
Lines(s) ==
    IF s = "" THEN <<>>
    ELSE LET i == Find(s, "\n", 1)
         IN  IF i = 0 THEN <<s>> ELSE <<Sub(s, 1, i)>> \o Lines(Tail_(s, i + 1))

VARIABLES
    infile,           \* the lines of the clippings file, without their "\n"
    files0,           \* the output directory as the run finds it: name -> content
    files,            \* the output directory: name -> content
    mtimes,           \* name -> modification time set by os.utime
    existing_hashes,  \* hash -> name of the file it was found in
    pos,              \* index into infile of the next line readline returns
    line,
    pc,               \* where the script is
    rec,              \* the record being parsed: key, title, author, note_type, ...
    order,            \* the keys of pub_title / pub_notes / pub_hashes, as inserted
    pub_title, pub_author, pub_notes, pub_hashes,
    notes, locations, types, dates,
    arrivals,         \* the records parsed so far, in arrival order
    sort_i,           \* index into order of the next book the sort loop handles
    flagged,          \* the "Overlapping strings detected" reports: <<key, i>>
    selected_titles,
    write_i,          \* index into order of the next book the write loop handles
    last,             \* what the write loop computed for the book it handled last
    log,              \* open() calls and "Adding new note to" reports, in order
    failed,           \* an IndexError was raised at the information line
    run,              \* 1 for the first run of the script, 2 for the second
    lcs_a, lcs_b, lcs_len, lcs_pc

pipeline_vars == <<infile, files0, files, mtimes, existing_hashes, pos, line, pc, rec,
                   order, pub_title, pub_author, pub_notes, pub_hashes, notes,
                   locations, types, dates, arrivals, sort_i, flagged,
                   selected_titles, write_i, last, log, failed, run>>

lcs_vars == <<lcs_a, lcs_b, lcs_len, lcs_pc>>

vars == <<pipeline_vars, lcs_vars>>

(***************************************************************************)
(* Reading the clippings file                                              *)
(***************************************************************************)

\* mc.readline(): the next line, "" at the end of the file.  Every caller either
\* strips the line or discards it, so the line's "\n" is left out.
ReadLine == IF pos <= Len(infile) THEN infile[pos] ELSE ""

Advance == IF pos <= Len(infile) THEN pos + 1 ELSE pos

NoRecord == [key |-> "", info |-> "", title |-> "", author |-> "", note_type |-> "",
             note_loc |-> "", note_page |-> "", date |-> "", note_text |-> ""]

NoBook == [key |-> "", selected |-> FALSE, nr_notes |-> 0, new_hashes |-> 0,
           short |-> FALSE, outfile |-> "", opened |-> FALSE]

\* os.path.splitext(fname)[1].lower() == ".md"
IsMarkdown(fname) ==
    /\ Len(fname) >= 4
    /\ Sub(fname, Len(fname) - 2, Len(fname)) \in {".md", ".MD", ".Md", ".mD"}

\* the hashes the comment lines of one file hold
HashesIn(content) ==
    LET ls == Lines(content)
    IN  {regex_hashline(ls[i])[1] : i \in {j \in 1..Len(ls) : regex_hashline(ls[j]) # <<>>}}

\* Scan of the output directory.  os.walk lists the files in no defined order, so a
\* hash found in several files is labelled with any one of them.
ScanOutputDir ==
    /\ pc = "scan"
    /\ LET md == {f \in DOMAIN files : IsMarkdown(f)}
           found == UNION {HashesIn(files[f]) : f \in md}
       IN  \E idx \in [found -> md] :
              /\ \A h \in found : h \in HashesIn(files[idx[h]])
              /\ existing_hashes' = idx
    /\ pc' = "open"
    /\ UNCHANGED <<infile, files0, files, mtimes, pos, line, rec, order, pub_title,
                   pub_author, pub_notes, pub_hashes, notes, locations, types, dates,
                   arrivals, sort_i, flagged, selected_titles, write_i, last, log,
                   failed, run, lcs_vars>>

\* mc.read(1) drops the first character of the file; the first line is then read,
\* stripped, and cleared of byte-order marks
OpenClippings ==
    /\ pc = "open"
    /\ line' = IF infile = <<>> THEN ""
               ELSE Replace(Strip(Tail_(infile[1], 2)), BOM, "")
    /\ pos' = IF infile = <<>> THEN 1 ELSE 2
    /\ pc' = "record"
    /\ UNCHANGED <<infile, files0, files, mtimes, existing_hashes, rec, order,
                   pub_title, pub_author, pub_notes, pub_hashes, notes, locations,
                   types, dates, arrivals, sort_i, flagged, selected_titles, write_i,
                   last, log, failed, run, lcs_vars>>

\* the control state that follows regex_info.findall(line)[0] on a line that does
\* not match: the IndexError is not caught, the interpreter exits
UncaughtSkips == "sort"

Uncaught == "aborted"

\* One pass of "while line:" up to the text block: the header line, the
\* information line, the empty line and the first line of the text
\* (the locals are bound by \E over a one-element set, so that each is
\* computed once)
ParseRecordHead ==
    /\ pc = "record"
    /\ line # ""
    /\ \E key \in {Strip(line)}, info \in {Strip(ReadLine)} :
       \E result_title \in {regex_title(key)}, m \in {regex_info(info)} :
          IF m = <<>>
          THEN /\ failed' = TRUE
               /\ pc' = Uncaught
               /\ line' = info
               /\ pos' = Advance
               /\ UNCHANGED rec
          ELSE \E result_loc \in {regex_loc(m[1][2])}, result_page \in {regex_page(m[1][2])} :
               LET p1 == Advance
                   p2 == IF p1 <= Len(infile) THEN p1 + 1 ELSE p1
                   p3 == IF p2 <= Len(infile) THEN p2 + 1 ELSE p2
               IN  /\ rec' = [key |-> key,
                              info |-> info,
                              title |-> IF result_title # <<>> THEN result_title[1][1] ELSE key,
                              author |-> IF result_title # <<>> THEN result_title[1][2]
                                         ELSE "Unknown",
                              note_type |-> m[1][1],
                              note_loc |-> IF result_loc # <<>> THEN result_loc[1] ELSE "",
                              note_page |-> IF result_page # <<>> THEN result_page[1] ELSE "",
                              date |-> m[1][3],
                              note_text |-> ""]
                   /\ line' = IF p2 <= Len(infile) THEN Strip(infile[p2]) ELSE ""
                   /\ pos' = p3
                   /\ pc' = "text"
                   /\ UNCHANGED failed
    /\ UNCHANGED <<infile, files0, files, mtimes, existing_hashes, order, pub_title,
                   pub_author, pub_notes, pub_hashes, notes, locations, types, dates,
                   arrivals, sort_i, flagged, selected_titles, write_i, last, log, run,
                   lcs_vars>>

\* note_text += line + "\n".  Once the file is exhausted every further pass
\* appends "\n" to a text that is never used again; the model keeps at most
\* MaxBlankRun of them.
MaxBlankRun == 2

AppendText ==
    /\ pc = "text"
    /\ line # note_sep
    /\ rec' = IF /\ pos > Len(infile)
                 /\ line = ""
                 /\ Len(rec.note_text) >= MaxBlankRun
                 /\ Tail_(rec.note_text, Len(rec.note_text) - MaxBlankRun + 1)
                        = Repeat("\n", MaxBlankRun)
              THEN rec
              ELSE [rec EXCEPT !.note_text = @ \o line \o "\n"]
    /\ pc' = "textread"
    /\ UNCHANGED <<infile, files0, files, mtimes, existing_hashes, pos, line, order,
                   pub_title, pub_author, pub_notes, pub_hashes, notes, locations,
                   types, dates, arrivals, sort_i, flagged, selected_titles, write_i,
                   last, log, failed, run, lcs_vars>>

\* line = mc.readline().strip(), at the end of the text loop's body
ReadTextLine ==
    /\ pc = "textread"
    /\ line' = Strip(ReadLine)
    /\ pos' = Advance
    /\ pc' = "text"
    /\ UNCHANGED <<infile, files0, files, mtimes, existing_hashes, rec, order,
                   pub_title, pub_author, pub_notes, pub_hashes, notes, locations,
                   types, dates, arrivals, sort_i, flagged, selected_titles, write_i,
                   last, log, failed, run, lcs_vars>>

\* note_text.strip().replace("  ", " ")
PostProcessRecollapse(note_text) == Replace(Replace(Strip(note_text), "  ", " "), "  ", " ")

PostProcess(note_text) == Replace(Strip(note_text), "  ", " ")

\* locstr of a record
LocStr(note_loc, note_page) ==
    (IF note_loc # "" THEN "loc. " \o note_loc ELSE "")
    \o (IF note_page # ""
        THEN (IF note_loc # "" THEN ", " ELSE "") \o "p." \o note_page
        ELSE "")

\* datestr of a record
DateStr(date) == IF dateutil_parse(date) # <<>> THEN dateutil_parse(date)[1] ELSE date

\* The text loop has met the separator: the rest of the pass of "while line:"
FinishRecord ==
    /\ pc = "text"
    /\ line = note_sep
    /\ \E key \in {rec.key}, note_text \in {PostProcess(rec.note_text)} :
       \E note_hash \in {sha256_hex8(note_text)},
          locstr \in {LocStr(rec.note_loc, rec.note_page)},
          datestr \in {DateStr(rec.date)} :
          LET old_notes == IF key \in DOMAIN pub_notes THEN pub_notes[key] ELSE <<>>
              old_hashes == IF key \in DOMAIN pub_hashes THEN pub_hashes[key] ELSE <<>>
          IN  /\ rec' = [rec EXCEPT !.note_text = note_text]
              /\ order' = IF key \in DOMAIN pub_notes THEN order ELSE Append(order, key)
              /\ pub_title' = DictSet(pub_title, key, Strip(rec.title))
              /\ pub_author' = DictSet(pub_author, key, Strip(rec.author))
              /\ pub_notes' = DictSet(pub_notes, key, Append(old_notes, note_text))
              /\ pub_hashes' = DictSet(pub_hashes, key, Append(old_hashes, note_hash))
              /\ notes' = DictSet(notes, note_hash, note_text)
              /\ locations' = DictSet(locations, note_hash, locstr)
              /\ types' = DictSet(types, note_hash, rec.note_type)
              /\ dates' = DictSet(dates, note_hash, datestr)
              /\ arrivals' = Append(arrivals,
                                    [key |-> key, info |-> rec.info, raw |-> rec.note_text,
                                     title |-> Strip(rec.title), author |-> Strip(rec.author),
                                     hash |-> note_hash, text |-> note_text, loc |-> locstr,
                                     type |-> rec.note_type, date |-> datestr])
    /\ line' = Strip(ReadLine)
    /\ pos' = Advance
    /\ pc' = "record"
    /\ UNCHANGED <<infile, files0, files, mtimes, existing_hashes, sort_i, flagged,
                   selected_titles, write_i, last, log, failed, run, lcs_vars>>

\* "while line:" ends on an empty line
EndOfRecords ==
    /\ pc = "record"
    /\ line = ""
    /\ pc' = "sort"
    /\ UNCHANGED <<infile, files0, files, mtimes, existing_hashes, pos, line, rec,
                   order, pub_title, pub_author, pub_notes, pub_hashes, notes,
                   locations, types, dates, arrivals, sort_i, flagged, selected_titles,
                   write_i, last, log, failed, run, lcs_vars>>

(***************************************************************************)
(* Chronology sort and overlap detection                                   *)
(***************************************************************************)

\* the sort key of the location branch, were the starts compared by their
\* leading digit as a comparison of the strings does
SortKeyLocLeadingDigit(item) ==
    The({IF m # <<>> THEN DigitVal(Ch(m[1][1], 1)) ELSE -1
            : m \in {regex_numrange(locations[item])}})

\* int(regex_numrange.search(locations[item])[1]) if there is a match, else -1
SortKeyLoc(item) ==
    The({IF m # <<>> THEN ParseInt(m[1][1]) ELSE -1
            : m \in {regex_numrange(locations[item])}})

\* int(regex_num.search(locations[item])[1]) if there is a match, else -1
SortKeyPage(item) ==
    The({IF m # <<>> THEN ParseInt(m[1]) ELSE -1 : m \in {regex_num(locations[item])}})

\* sorted(seq, key=...) with the keys given as ks: Python's sort is stable
Sorted(seq, ks) ==
    LET n == Len(seq)
        rank(i) == 1 + Cardinality({j \in 1..n : \/ ks[j] < ks[i]
                                                 \/ (ks[j] = ks[i] /\ j < i)})
    IN  [p \in 1..n |-> seq[CHOOSE i \in 1..n : rank(i) = p]]

MaxLenOf(str1, str2) == IF Len(str1) >= Len(str2) THEN Len(str1) ELSE Len(str2)

MinLenOf(str1, str2) == IF Len(str1) <= Len(str2) THEN Len(str1) ELSE Len(str2)

\* the pair is skipped unless both texts have 52 characters
TooShortEither(str1, str2) == MinLenOf(str1, str2) < 52

\* max(len(str1), len(str2)) < 52
TooShort(str1, str2) == MaxLenOf(str1, str2) < 52

\* len_lcs > 0.4 * max(len(str1), len(str2)).  The float product compares with
\* an integer as 2/5 does for every length below 200000, so the test is
\* 5 * len_lcs > 2 * max.
AboveThreshold(len_lcs, str1, str2) == 5 * len_lcs > 2 * MaxLenOf(str1, str2)

\* one pass of the overlap loop for the adjacent pair hash1, hash2: TRUE when
\* "Overlapping strings detected" is printed
OverlapReported(hash1, hash2) ==
    LET str1 == notes[hash1]
        str2 == notes[hash2]
        s1 == regex_numrange(locations[hash1])
        s2 == regex_numrange(locations[hash2])
    IN  IF types[hash1] = "Bookmark" \/ types[hash2] = "Bookmark" \/ TooShort(str1, str2)
        THEN FALSE
        ELSE IF s1 = <<>> \/ s2 = <<>>
        THEN FALSE
        ELSE LET range1 == <<ParseInt(s1[1][1]), ParseInt(s1[1][2])>>
                 range2 == <<ParseInt(s2[1][1]), ParseInt(s2[1][2])>>
             IN  IF range1[1] \in {range2[1], range2[2]} \/ range1[2] \in {range2[1], range2[2]}
                 THEN AboveThreshold(longest_common_substring_len(str1, str2), str1, str2)
                 ELSE FALSE

\* One pass of "for k in pub_hashes.keys()"
SortBook ==
    /\ pc = "sort"
    /\ sort_i <= Len(order)
    /\ \E k \in {order[sort_i]} :
       \E hs \in {pub_hashes[k]} :
       \E first \in {locations[hs[1]]} :
          IF Contains(first, "loc. ")
          THEN \E keys \in {[i \in 1..Len(hs) |-> SortKeyLoc(hs[i])]} :
               \E byloc \in {Sorted(hs, keys)} :
                  /\ pub_hashes' = [pub_hashes EXCEPT ![k] = byloc]
                  /\ flagged' = flagged \cup
                         {<<k, i>> : i \in {j \in 1..(Len(byloc) - 1) :
                                               OverlapReported(byloc[j], byloc[j + 1])}}
          ELSE IF Contains(first, "p.")
          THEN \E keys \in {[i \in 1..Len(hs) |-> SortKeyPage(hs[i])]} :
               \E bypage \in {Sorted(hs, keys)} :
                  /\ pub_hashes' = [pub_hashes EXCEPT ![k] = bypage]
                  /\ UNCHANGED flagged
          ELSE UNCHANGED <<pub_hashes, flagged>>
    /\ sort_i' = sort_i + 1
    /\ UNCHANGED <<infile, files0, files, mtimes, existing_hashes, pos, line, pc, rec,
                   order, pub_title, pub_author, pub_notes, notes, locations, types,
                   dates, arrivals, selected_titles, write_i, last, log, failed, run,
                   lcs_vars>>

(***************************************************************************)
(* Book selection                                                          *)
(***************************************************************************)

\* get_user_book_selection(pub_title), once the sort loop is over.  The user
\* enters numbers until the list is not empty and in range: 0 selects every
\* title, otherwise the titles numbered are selected.
SelectBooks ==
    /\ pc = "sort"
    /\ sort_i > Len(order)
    /\ LET unique_titles == {pub_title[k] : k \in DOMAIN pub_title}
       IN  \E chosen \in SUBSET unique_titles :
              /\ chosen # {} \/ unique_titles = {}
              /\ selected_titles' = chosen
    /\ pc' = "write"
    /\ UNCHANGED <<infile, files0, files, mtimes, existing_hashes, pos, line, rec,
                   order, pub_title, pub_author, pub_notes, pub_hashes, notes,
                   locations, types, dates, arrivals, sort_i, flagged, write_i, last,
                   log, failed, run, lcs_vars>>

(***************************************************************************)
(* The write loop                                                          *)
(***************************************************************************)

\* the test of the dedup gate, were it never to find a hash
IsExistingNever(note_hash) == FALSE

\* note_hash in existing_hashes
IsExisting(note_hash) == note_hash \in DOMAIN existing_hashes

\* the short flag, were it to count one more note as short
IsShortOffByOne(nr_notes) == ~(nr_notes > 3)

\* not (nr_notes > 2)
IsShort(nr_notes) == ~(nr_notes > 2)

ShortTitle(title) ==
    LET a == SplitFirst(title, "|")
        b == SplitFirst(a, " - ")
        c == SplitFirst(b, ". ")
    IN  IF Len(c) > 128 THEN Sub(c, 1, 127) ELSE c

FileName(author, title, nr_notes) ==
    IF IsShort(nr_notes) THEN "short_notes.md"
    ELSE author \o " - " \o Strip(ShortTitle(title)) \o ".md"

\* what is written before the notes
HeaderText(short, existed, author, title) ==
    IF short
    THEN LET titlestr == IF author # "Unknown" THEN author \o " - " \o title ELSE title
         IN  titlestr \o "\n" \o Repeat("-", Len(titlestr)) \o "\n\n"
    ELSE IF ~existed
    THEN "---\n" \o "created_date: " \o Today \o "\n" \o "title: " \o title \o "\n"
         \o (IF author # "Unknown" THEN "authors: [" \o author \o "]\n" ELSE "")
         \o "tags:\n  - books\n" \o "---\n" \o "## Summary\n" \o "\n" \o "## Highlights\n"
    ELSE ""

\* the comment line of a note
Comment(note_hash, short, author, title) ==
    locations[note_hash] \o " ; " \o dates[note_hash]
    \o (IF short THEN " ; " \o author \o " ; " \o title ELSE "")

\* the note is written: it is not in existing_hashes and its text is not empty
IsWritten(note_hash) == ~IsExisting(note_hash) /\ notes[note_hash] # ""

\* what the note loop writes for the hashes hs
RECURSIVE NotesText(_, _, _, _)
NotesText(hs, short, author, title) ==
    IF hs = <<>> THEN ""
    ELSE (IF IsWritten(Head(hs))
          THEN Comment(Head(hs), short, author, title) \o "\n"
               \o ">" \o notes[Head(hs)] \o "\n---\n\n"
          ELSE "")
         \o NotesText(Tail(hs), short, author, title)

\* the "Adding new note to" reports of the note loop
RECURSIVE NotesLog(_, _, _)
NotesLog(hs, key, outfile) ==
    IF hs = <<>> THEN <<>>
    ELSE (IF IsWritten(Head(hs))
          THEN << [ev |-> "add", key |-> key, file |-> outfile, hash |-> Head(hs),
                   type |-> types[Head(hs)], loc |-> locations[Head(hs)],
                   date |-> dates[Head(hs)], text |-> notes[Head(hs)]] >>
          ELSE <<>>)
         \o NotesLog(Tail(hs), key, outfile)

\* last_date after the note loop: the date of the last note whose date parses
RECURSIVE LastDate(_, _)
LastDate(hs, d) ==
    IF hs = <<>> THEN d
    ELSE LastDate(Tail(hs),
                  IF dateutil_parse(dates[Head(hs)]) # <<>>
                  THEN dateutil_parse(dates[Head(hs)])[1] ELSE d)

\* One pass of "for key in pub_title.keys()"
WriteBook ==
    /\ pc = "write"
    /\ write_i <= Len(order)
    /\ \E key \in {order[write_i]} :
       \E nr_notes \in {Len(pub_notes[key])}, author \in {pub_author[key]},
          title \in {pub_title[key]}, hs \in {pub_hashes[key]} :
       \E short \in {IsShort(nr_notes)},
          new_hashes \in {Cardinality({i \in 1..Len(hs) : ~IsExisting(hs[i])})},
          outfile \in {getvalidfilename(FileName(author, title, nr_notes))} :
          LET existed == outfile \in DOMAIN files
              before == IF existed THEN files[outfile] ELSE ""
          IN  IF title \notin selected_titles
              THEN /\ last' = [NoBook EXCEPT !.key = key]
                   /\ UNCHANGED <<files, mtimes, log>>
              ELSE IF new_hashes = 0
              THEN /\ last' = [key |-> key, selected |-> TRUE, nr_notes |-> nr_notes,
                               new_hashes |-> 0, short |-> short, outfile |-> "",
                               opened |-> FALSE]
                   /\ UNCHANGED <<files, mtimes, log>>
              ELSE /\ last' = [key |-> key, selected |-> TRUE, nr_notes |-> nr_notes,
                               new_hashes |-> new_hashes, short |-> short,
                               outfile |-> outfile, opened |-> TRUE]
                   /\ files' = DictSet(files, outfile,
                                       before \o HeaderText(short, existed, author, title)
                                              \o NotesText(hs, short, author, title))
                   /\ mtimes' = DictSet(mtimes, outfile, LastDate(hs, Now))
                   /\ log' = log \o << [ev |-> "open", key |-> key, file |-> outfile,
                                        hash |-> "", type |-> "", loc |-> "", date |-> "",
                                        text |-> ""] >>
                                 \o NotesLog(hs, key, outfile)
    /\ write_i' = write_i + 1
    /\ UNCHANGED <<infile, files0, existing_hashes, pos, line, pc, rec, order,
                   pub_title, pub_author, pub_notes, pub_hashes, notes, locations,
                   types, dates, arrivals, sort_i, flagged, selected_titles, failed,
                   run, lcs_vars>>

\* the write loop is over: the script ends
Finish ==
    /\ pc = "write"
    /\ write_i > Len(order)
    /\ pc' = "done"
    /\ UNCHANGED <<infile, files0, files, mtimes, existing_hashes, pos, line, rec,
                   order, pub_title, pub_author, pub_notes, pub_hashes, notes,
                   locations, types, dates, arrivals, sort_i, flagged, selected_titles,
                   write_i, last, log, failed, run, lcs_vars>>

\* The script is started again on the same clippings file and the output
\* directory the first run left: every global is built afresh
RunAgain ==
    /\ pc = "done"
    /\ run = 1
    /\ run' = 2
    /\ files0' = files
    /\ pc' = "scan"
    /\ existing_hashes' = EmptyDict
    /\ pos' = 1
    /\ line' = ""
    /\ rec' = NoRecord
    /\ order' = <<>>
    /\ pub_title' = EmptyDict
    /\ pub_author' = EmptyDict
    /\ pub_notes' = EmptyDict
    /\ pub_hashes' = EmptyDict
    /\ notes' = EmptyDict
    /\ locations' = EmptyDict
    /\ types' = EmptyDict
    /\ dates' = EmptyDict
    /\ arrivals' = <<>>
    /\ sort_i' = 1
    /\ flagged' = {}
    /\ selected_titles' = {}
    /\ write_i' = 1
    /\ last' = NoBook
    /\ log' = <<>>
    /\ failed' = FALSE
    /\ UNCHANGED <<infile, files, mtimes, lcs_vars>>

\* a call of longest_common_substring_len(lcs_a, lcs_b)
CallLcs ==
    /\ lcs_pc = "call"
    /\ lcs_len' = longest_common_substring_len(lcs_a, lcs_b)
    /\ lcs_pc' = "returned"
    /\ UNCHANGED <<pipeline_vars, lcs_a, lcs_b>>

(***************************************************************************)
(* Inputs                                                                  *)
(***************************************************************************)

\* the most records a clippings file of the model holds
MaxRecords == 3

\* the longest argument of the similarity metric in LcsSpec
MaxLen == 4

Rec(header, info, text) == [header |-> header, info |-> info, text |-> text]

Monday == "Monday, 1 January 2024 00:00:00"

Tuesday == "Tuesday, 2 January 2024 00:00:00"

ScenarioRecord ==
    Rec("Book Title (Jane Doe)", "- Your Highlight on page 12 | Added on " \o Monday,
        <<"Some  highlighted   text.">>)

MalformedRecord == Rec("B", "- Highlight at location 10-12", <<"x">>)

\* two books; in book "B" three ranges out of order, a location without a range
\* whose text repeats another note's, and a bookmark without text
MainRecords ==
    { ScenarioRecord,
      Rec("B", "- Your Highlight at location 10-12 | Added on " \o Monday, <<"x">>),
      Rec("B", "- Your Highlight at location 50-60 | Added on " \o Tuesday, <<"y">>),
      Rec("B", "- Your Highlight at location 1-5 | Added on " \o Monday, <<"z">>),
      Rec("B", "- Your Note at location 7 | Added on n/a", <<"x">>),
      Rec("B", "- Your Bookmark at location 3 | Added on " \o Tuesday, <<"">>),
      MalformedRecord }

LA == "the quick brown fox jumps over the lazy dog and naps"

\* one book whose texts are long enough for the overlap test, or just too short
OverlapRecords ==
    { Rec("B", "- Your Highlight at location 100-150 | Added on " \o Monday, <<LA>>),
      Rec("B", "- Your Highlight at location 150-200 | Added on " \o Monday,
          <<"a fox jumps over the lazy dog and naps all afternoon">>),
      Rec("B", "- Your Highlight at location 150-200 | Added on " \o Monday,
          <<"jumps over the lazy dos; UNLIKE ANY CAT I KNOW OF HERE.">>),
      Rec("B", "- Your Bookmark at location 150-200 | Added on " \o Monday,
          <<"fox jumps over the lazy dog and naps all afternoon ok">>),
      Rec("B", "- Your Highlight at location 300-400 | Added on " \o Monday,
          <<"brown fox jumps over the lazy dog and naps every day">>),
      Rec("B", "- Your Note at location 150 | Added on " \o Monday,
          <<"quick brown fox jumps over the lazy dog and naps now">>),
      Rec("B", "- Your Highlight at location 100-150 | Added on " \o Monday,
          <<"the quick brown fox jumps over the lazy dog and nap">>),
      Rec("B", "- Your Highlight at location 150-200 | Added on " \o Monday,
          <<"fox jumps over the lazy dog an">>),
      MalformedRecord }

\* the lines of one record; the last record of a truncated file lacks its separator
RecordLines(r, terminated) ==
    <<r.header, r.info, "">> \o r.text \o (IF terminated THEN <<note_sep>> ELSE <<>>)

RECURSIVE FileLines(_, _, _)
FileLines(rs, i, truncated) ==
    IF i > Len(rs) THEN <<>>
    ELSE RecordLines(rs[i], ~(truncated /\ i = Len(rs))) \o FileLines(rs, i + 1, truncated)

\* a clippings file: a byte-order mark, then the records
Clippings(rs, truncated) ==
    LET ls == FileLines(rs, 1, truncated)
    IN  IF ls = <<>> THEN <<>> ELSE <<BOM \o ls[1]>> \o Tail(ls)

ClippingsFiles(records, maxn) ==
    {Clippings(rs, t) : rs \in UNION {[1..n -> records] : n \in 0..maxn}, t \in BOOLEAN}

EmptyDir == EmptyDict

\* an output directory written by a version of the script whose comment lines
\* begin with ".. <hash>": the notes "x" and "z", and a file that is no Markdown
OldDir ==
    [f \in {"old.md", "README.txt"} |->
        IF f = "old.md"
        THEN ".. 2d711642 ; Highlight ; loc. 10-12 ; 2024-01-01 00:00:00\nx\n\n"
             \o ".. 594e519a ; Highlight ; loc. 1-5 ; 2024-01-01 00:00:00\nz\n\n"
        ELSE ".. a1fce436 ; Highlight ; loc. 50-60 ; 2024-01-02 00:00:00\ny\n\n"]

RECURSIVE StringsOfLen(_)
StringsOfLen(n) ==
    IF n = 0 THEN {""} ELSE {s \o c : s \in StringsOfLen(n - 1), c \in {"a", "b"}}

Idle ==
    /\ infile = <<>> /\ files0 = EmptyDir /\ files = EmptyDir /\ mtimes = EmptyDict
    /\ existing_hashes = EmptyDict /\ pos = 1 /\ line = "" /\ pc = "idle"
    /\ rec = NoRecord /\ order = <<>> /\ pub_title = EmptyDict
    /\ pub_author = EmptyDict /\ pub_notes = EmptyDict /\ pub_hashes = EmptyDict
    /\ notes = EmptyDict /\ locations = EmptyDict /\ types = EmptyDict
    /\ dates = EmptyDict /\ arrivals = <<>> /\ sort_i = 1 /\ flagged = {}
    /\ selected_titles = {} /\ write_i = 1 /\ last = NoBook /\ log = <<>>
    /\ failed = FALSE /\ run = 1

\* the script starts on one of the clippings files and one of the directories
Start(inputs, dirs) ==
    /\ infile \in inputs
    /\ files \in dirs
    /\ files0 = files
    /\ mtimes = EmptyDict
    /\ existing_hashes = EmptyDict /\ pos = 1 /\ line = "" /\ pc = "scan"
    /\ rec = NoRecord /\ order = <<>> /\ pub_title = EmptyDict
    /\ pub_author = EmptyDict /\ pub_notes = EmptyDict /\ pub_hashes = EmptyDict
    /\ notes = EmptyDict /\ locations = EmptyDict /\ types = EmptyDict
    /\ dates = EmptyDict /\ arrivals = <<>> /\ sort_i = 1 /\ flagged = {}
    /\ selected_titles = {} /\ write_i = 1 /\ last = NoBook /\ log = <<>>
    /\ failed = FALSE /\ run = 1
    /\ lcs_a = "" /\ lcs_b = "" /\ lcs_len = 0 /\ lcs_pc = "idle"

(***************************************************************************)
(* Specifications                                                          *)
(***************************************************************************)

Init == Start(ClippingsFiles(MainRecords, MaxRecords), {EmptyDir, OldDir})

Next ==
    \/ ScanOutputDir
    \/ OpenClippings
    \/ ParseRecordHead
    \/ AppendText
    \/ ReadTextLine
    \/ FinishRecord
    \/ EndOfRecords
    \/ SortBook
    \/ SelectBooks
    \/ WriteBook
    \/ Finish

\* one run of the script
Spec == Init /\ [][Next]_vars

\* the most records a clippings file of FairSpec holds
MaxFairRecords == 2

InitFair == Start(ClippingsFiles(MainRecords, MaxFairRecords), {EmptyDir})

\* one run of the script on a file of at most MaxFairRecords records; the interpreter
\* takes every step it can
FairSpec == InitFair /\ [][Next]_vars /\ WF_vars(Next)

InitOverlap == Start(ClippingsFiles(OverlapRecords, MaxRecords), {EmptyDir})

\* one run of the script on a book of long highlights
OverlapSpec == InitOverlap /\ [][Next]_vars

InitTwice == Start(ClippingsFiles(MainRecords, MaxRecords), {EmptyDir})

NextTwice == Next \/ RunAgain

\* the script run on an empty output directory, then run again
TwiceSpec == InitTwice /\ [][NextTwice]_vars

InitLcs ==
    /\ Idle
    /\ lcs_a \in UNION {StringsOfLen(n) : n \in 0..MaxLen}
    /\ lcs_b \in UNION {StringsOfLen(n) : n \in 0..MaxLen}
    /\ lcs_len = 0
    /\ lcs_pc = "call"

NextLcs == CallLcs

\* calls of the similarity metric
LcsSpec == InitLcs /\ [][NextLcs]_vars

(***************************************************************************)
(* Properties                                                              *)
(***************************************************************************)

\* the positions of the records of book k in arrival order
ArrivalsOf(k) == {i \in 1..Len(arrivals) : arrivals[i].key = k}

\* the number of hashes of book k that existing_hashes does not hold
NewCount(k) ==
    Cardinality({i \in 1..Len(pub_hashes[k]) : pub_hashes[k][i] \notin DOMAIN existing_hashes})

\* the "Adding new note to" reports for hash h
AddsOf(h) == {i \in 1..Len(log) : log[i].ev = "add" /\ log[i].hash = h}

\* the books the sort loop has handled
SortedBooks == {order[i] : i \in 1..(IF pc \in {"sort", "write", "done"}
                                    THEN sort_i - 1 ELSE 0)}

\* the start of the location range recorded for hash h, -1 when none parses
RangeStart(h) ==
    IF regex_numrange(locations[h]) = <<>> THEN -1
    ELSE ParseInt(regex_numrange(locations[h])[1][1])

\* the book's first-arrived note has a location ("loc. ") in its location string
InLocationBranch(k) == Contains(arrivals[MinOf(ArrivalsOf(k))].loc, "loc. ")

\* C1: Idempotence across runs: when the script is run on an empty output
\* directory and then again on the same clippings file and the directory the
\* first run left, the second run finds zero new notes for every book and
\* writes nothing.
C1_SecondRunWritesNothing ==
    run = 2 => /\ last.selected => last.new_hashes = 0
               /\ files = files0
               /\ log = <<>>

\* C2: Dedup gate: a note whose hash is a key of existing_hashes is never
\* written and does not count as a new note of its book; a book whose count of
\* new notes is 0 has no output file opened or written.
C2_DedupGate ==
    /\ \A i \in 1..Len(log) :
          log[i].ev = "add" => log[i].hash \notin DOMAIN existing_hashes
    /\ last.selected => last.new_hashes = NewCount(last.key)
    /\ \A i \in 1..Len(log) : NewCount(log[i].key) > 0
    /\ log = <<>> => files = files0

\* C2 witness: a selected book all of whose notes are in existing_hashes has
\* been passed over after another book was written
C2_Witness ==
    /\ last.selected /\ last.nr_notes >= 1 /\ last.new_hashes = 0 /\ ~last.opened
    /\ existing_hashes # EmptyDict
    /\ log # <<>>

C4_ShortIffFewNew ==
    last.opened => (last.outfile = "short_notes.md" <=> NewCount(last.key) <= 2)

\* C4: Short-notes routing, amended: a selected book with a new note has its
\* output appended to the short-notes file exactly when the book has at most 2
\* notes in the clippings file, new or not, and to its own file otherwise.
C4_ShortIffFewNotes ==
    last.opened =>
       /\ last.outfile = "short_notes.md" <=> Len(pub_notes[last.key]) <= 2
       /\ last.outfile \in DOMAIN files
       /\ \A i \in 1..Len(log) : log[i].key = last.key => log[i].file = last.outfile

\* C4 witness: a book of three notes, one of them new, is written to its own file
C4_Witness ==
    /\ last.opened
    /\ Len(pub_notes[last.key]) = 3
    /\ NewCount(last.key) = 1
    /\ last.outfile # "short_notes.md"

\* C5: A malformed record is fatal with no partial output: when the
\* information line of a record does not match, the run aborts and nothing is
\* written, the notes of the records before it included; output begins only
\* once the whole file has been parsed.
C5_MalformedIsFatal ==
    /\ failed => pc = "aborted" /\ files = files0 /\ log = <<>>
    /\ (files # files0 \/ log # <<>>) =>
          ~failed /\ pc \in {"write", "done"} /\ pos > Len(infile)

\* C5 witness: the run has aborted after two records were parsed
C5_Witness == failed /\ pc = "aborted" /\ Len(arrivals) = 2

\* C6: Duplicate-hash policy: when two notes parsed in one run have the same
\* hash, the second is a duplicate of the first: one note is emitted for the
\* hash, with the first note's text, location string, type and date.
C6_DuplicateOfFirst ==
    pc = "done" =>
       \A h \in DOMAIN notes :
          LET first == arrivals[MinOf({i \in 1..Len(arrivals) : arrivals[i].hash = h})]
          IN  /\ Cardinality(AddsOf(h)) <= 1
              /\ \A i \in AddsOf(h) :
                    /\ log[i].text = first.text
                    /\ log[i].loc = first.loc
                    /\ log[i].type = first.type
                    /\ log[i].date = first.date

\* a and b have a common contiguous run of n characters
HasCommonRun(a, b, n) ==
    \E i \in 1..(Len(a) - n + 1) :
       \E j \in 1..(Len(b) - n + 1) : SubSeq(a, i, i + n - 1) = SubSeq(b, j, j + n - 1)

\* the length of the longest contiguous run common to a and b
LongestCommonRun(a, b) ==
    MaxOf({0} \cup {n \in 1..MinLenOf(a, b) : HasCommonRun(a, b, n)})

\* the conditions of C7 for the adjacent hashes h1, h2.  A longest common run
\* longer than 0.4 * m has at least (2 * m) \div 5 + 1 characters, and two texts
\* with a common run have one of every smaller length.
ShouldFlag(h1, h2) ==
    LET m == MaxLenOf(notes[h1], notes[h2])
        r1 == regex_numrange(locations[h1])
        r2 == regex_numrange(locations[h2])
    IN  /\ types[h1] # "Bookmark" /\ types[h2] # "Bookmark"
        /\ Len(notes[h1]) >= 52 \/ Len(notes[h2]) >= 52
        /\ r1 # <<>> /\ r2 # <<>>
        /\ {ParseInt(r1[1][1]), ParseInt(r1[1][2])}
             \cap {ParseInt(r2[1][1]), ParseInt(r2[1][2])} # {}
        /\ HasCommonRun(notes[h1], notes[h2], (2 * m) \div 5 + 1)

\* C7: Overlap flagging: in a book sorted in the location branch, an adjacent
\* pair (i, i+1) is reported exactly when neither note is a Bookmark, one of
\* the texts has 52 characters or more, both ranges parse, the ranges share an
\* endpoint, and the longest common run of the texts is longer than 0.4 times
\* the longer text.
C7_OverlapFlagging ==
    /\ \A f \in flagged : f[1] \in SortedBooks /\ InLocationBranch(f[1])
    /\ \A k \in SortedBooks :
          InLocationBranch(k) =>
             \A i \in 1..(Len(pub_hashes[k]) - 1) :
                <<k, i>> \in flagged <=> ShouldFlag(pub_hashes[k][i], pub_hashes[k][i + 1])

\* C7 witness: of three sorted notes the first pair is reported and the second,
\* whose common run is exactly 0.4 times the longer text, is not
C7_Witness ==
    /\ pc = "write"
    /\ Len(arrivals) = 3
    /\ \E k \in DOMAIN pub_hashes :
          /\ Len(pub_hashes[k]) = 3
          /\ <<k, 1>> \in flagged
          /\ <<k, 2>> \notin flagged
          /\ types[pub_hashes[k][3]] = "Highlight"
          /\ 5 * LongestCommonRun(notes[pub_hashes[k][2]], notes[pub_hashes[k][3]])
                = 2 * MaxLenOf(notes[pub_hashes[k][2]], notes[pub_hashes[k][3]])

\* the record of the scenario has been parsed as the i-th record
IsScenario(i) ==
    /\ arrivals[i].key = "Book Title (Jane Doe)"
    /\ arrivals[i].info = "- Your Highlight on page 12 | Added on Monday, 1 January 2024 00:00:00"
    /\ arrivals[i].raw = "Some  highlighted   text.\n"

ScenarioFields(i) ==
    /\ arrivals[i].title = "Book Title"
    /\ arrivals[i].author = "Jane Doe"
    /\ arrivals[i].type = "Highlight"
    /\ arrivals[i].loc = "p.12"
    /\ pub_title["Book Title (Jane Doe)"] = "Book Title"
    /\ pub_author["Book Title (Jane Doe)"] = "Jane Doe"

\* C8 as stated: the record of the scenario parses to the text
\* "Some highlighted text."
C8_ScenarioFullyCollapsed ==
    \A i \in 1..Len(arrivals) :
       IsScenario(i) => ScenarioFields(i) /\ arrivals[i].text = "Some highlighted text."

\* C8: Parse scenario, amended: the record parses to title "Book Title", author
\* "Jane Doe", type "Highlight", location string "p.12" and the text "Some",
\* one space, "highlighted", two spaces, "text.": the one pass of the
\* replacement leaves two of the three spaces.
C8_Scenario ==
    \A i \in 1..Len(arrivals) :
       IsScenario(i) =>
          /\ ScenarioFields(i)
          /\ arrivals[i].text = "Some highlighted  text."
          /\ arrivals[i].hash = "1283d823"

\* C8 witness: the record has been parsed as the first of the file, after the
\* byte-order mark, and as a later one
C8_Witness == Len(arrivals) = 2 /\ IsScenario(1) /\ IsScenario(2)

\* C9: Similarity metric: the result is the length of the longest contiguous
\* run common to both strings; it is symmetric, the length of a for (a, a), and
\* 0 when a string is empty.
C9_SimilarityMetric ==
    lcs_pc = "returned" =>
       /\ lcs_len = LongestCommonRun(lcs_a, lcs_b)
       /\ lcs_len = longest_common_substring_len(lcs_b, lcs_a)
       /\ lcs_a = lcs_b => lcs_len = Len(lcs_a)
       /\ (lcs_a = "" \/ lcs_b = "") => lcs_len = 0

\* C9 witness: a call whose first argument is the shorter, with a common run
\* of two characters that is neither string
C9_Witness ==
    /\ lcs_pc = "returned"
    /\ Len(lcs_a) < Len(lcs_b)
    /\ lcs_len = 2
    /\ Len(lcs_a) = 3

\* C10: Parser termination: on every finite file the record parser eventually
\* stops, by reaching the end of the records or by aborting, also when the
\* file ends inside a text block.
C10_ParserStops == <>(pc \in {"sort", "write", "done", "aborted"})

====
